---- MODULE Spec2Model ----
(***************************************************************************)
(* PSANet (pywick/models/segmentation/testnets/psanet.py).                 *)
(*                                                                         *)
(* Two levels are modelled.                                                *)
(*                                                                         *)
(* Spec: a session with the module's public surface: a model is built by   *)
(* one of the constructors, switched between training and inference mode,  *)
(* and called on image batches.  A tensor is its shape, its channel layout *)
(* and the tape of operations that produced its value (layers are          *)
(* uninterpreted: two values are equal when the same operations were       *)
(* applied to the same inputs with the same parameters, statistics and     *)
(* dropout masks).  Channel counts are the program's own.                  *)
(*                                                                         *)
(* SpecAttn: _AttentionGeneration.forward on small numeric tensors, with   *)
(* the softmax and the batched matrix product computed entry by entry      *)
(* (exact fractions, exp modelled by 2^v).                                 *)
(***************************************************************************)
EXTENDS Integers, Sequences, FiniteSets, TLC

VARIABLES model, baseCall, tracked, rng, call, ag

vars == <<model, baseCall, tracked, rng, call, ag>>

-----------------------------------------------------------------------------
(* Bounds of the model *)

MaxClasses == 2
MaxImages == 1
MaxTracked == 2
MaxSide == 2
MaxOut == 4
MaxLogit == 1
MaxFeat == 2

(* Program constants *)

ImageChannels == 3
Stride == 8
C3Channels == 1024
C4Channels == 2048
PsaInChannels == 2048

\* Variant: the formula of the comment on line 65 at the demo's crop size,
\* crop_size // 8 ** 2.
PsaOutChannelsComment == 480 \div (8 ^ 2)

PsaOutChannels == 3600
ReducedChannels == 512
ConvPostIn == 1024
ConvPostOut == 2048
ProjectIn == 4096
ProjectMid == 512
AuxInChannels == 1024

BackboneEnum == {"resnet50", "resnet101", "resnet152"}

\* Batch sizes and feature grids (height, width) of the inputs tried; an
\* image is Stride times its grid, so every input is a multiple of the
\* stride.  60*60 = 45*80 = 3600.
BatchSizes == {1, 2}
Grids == {<<60, 60>>, <<45, 80>>, <<32, 32>>}

\* Sizes of the small _AttentionGeneration instances computed numerically.
SmallIn == {3}
SmallReduced == {1, 2}

NoModel == [nclass |-> 0, backbone |-> "", aux |-> FALSE, pretrained_base |-> FALSE,
            training |-> FALSE, exclusive |-> <<>>]

-----------------------------------------------------------------------------
(* Tensors: whether the operation produced one, its shape, its channel
   layout (the blocks concatenated along dim 1, in order) and the tape of
   operations its value went through. *)

Entry(op, p) == [op |-> op, p |-> p]

Block(src, c) == [src |-> src, c |-> c]

Tensor(shape, layout, v) == [ok |-> TRUE, shape |-> shape, layout |-> layout, v |-> v]

\* An operation that raises: no tensor is produced; the tape keeps what failed.
Fail(t, why) ==
    [ok |-> FALSE, shape |-> <<>>, layout |-> <<>>, v |-> Append(t.v, Entry(why, <<>>))]

\* Output side of a stride-1, dilation-1 convolution.
ConvOut(h, k, pad) == h + 2 * pad - (k - 1)

\* nn.Conv2d(cin, cout, k, padding=pad): raises unless the input has cin channels.
Conv2d(name, cin, cout, k, pad, t) ==
    IF ~t.ok THEN t
    ELSE IF t.shape[2] # cin THEN Fail(t, "error: channels")
    ELSE Tensor(<<t.shape[1], cout, ConvOut(t.shape[3], k, pad), ConvOut(t.shape[4], k, pad)>>,
                <<Block(name, cout)>>, Append(t.v, Entry(name, <<>>)))

\* The statistics a normalization layer uses: the batch's own in training
\* mode, the running statistics (their version) in inference mode.
StatsUsed(training, trk) == IF training THEN <<>> ELSE <<trk>>

\* _ConvBNReLU(cin, cout, k, padding=pad, norm_layer): convolution,
\* normalization, activation.
ConvBNReLU(name, cin, cout, k, pad, t, training, trk) ==
    Conv2d(name, cin, cout, k, pad,
           IF ~t.ok THEN t
           ELSE [t EXCEPT !.v = Append(@, Entry("bn+relu of next", StatsUsed(training, trk)))])

\* Variant: F.dropout2d(t, 0.1) called with its default training=True, a
\* mask drawn in either mode.
Dropout2dFunctional(name, t, training, g) ==
    IF ~t.ok THEN t
    ELSE [t EXCEPT !.v = Append(@, Entry(name, <<g>>))]

\* nn.Dropout2d(0.1, False): in training mode a mask is drawn from the
\* generator (state g); in inference mode the layer is the identity.
Dropout2d(name, t, training, g) ==
    IF ~t.ok THEN t
    ELSE [t EXCEPT !.v = Append(@, Entry(name, IF training THEN <<g>> ELSE <<>>))]

\* torch.cat([a, b], dim=1)
Cat(a, b) ==
    IF ~a.ok THEN a
    ELSE IF ~b.ok THEN b
    ELSE IF <<a.shape[1], a.shape[3], a.shape[4]>> # <<b.shape[1], b.shape[3], b.shape[4]>>
         THEN Fail(b, "error: cat")
    ELSE Tensor(<<a.shape[1], a.shape[2] + b.shape[2], a.shape[3], a.shape[4]>>,
                a.layout \o b.layout, a.v \o b.v \o <<Entry("cat", <<>>)>>)

\* F.interpolate(t, size, mode='bilinear', align_corners=True)
Interpolate(t, size) ==
    IF ~t.ok THEN t
    ELSE [t EXCEPT !.shape = <<t.shape[1], t.shape[2], size[1], size[2]>>,
                   !.v = Append(@, Entry("interpolate", size))]

-----------------------------------------------------------------------------
(* Tensor operations used by _AttentionGeneration *)

RECURSIVE Numel(_)
Numel(shape) == IF shape = <<>> THEN 1 ELSE Head(shape) * Numel(Tail(shape))

\* t.view(n, c, -1): the last size is inferred; <<>> when it cannot be.
View3Shape(shape, n, c) ==
    IF n * c > 0 /\ Numel(shape) % (n * c) = 0
    THEN <<n, c, Numel(shape) \div (n * c)>> ELSE <<>>

\* t.view(n, c, h, w); <<>> when the sizes do not hold the elements.
View4Shape(shape, n, c, h, w) ==
    IF Numel(shape) = n * c * h * w THEN <<n, c, h, w>> ELSE <<>>

\* torch.bmm(a, b) for a of shape (B, N, M) and b of shape (B, M, P):
\* (B, N, P), and <<>> (a shape mismatch) otherwise.
BmmShape(a, b) ==
    IF Len(a) = 3 /\ Len(b) = 3 /\ a[1] = b[1] /\ a[3] = b[2]
    THEN <<a[1], a[2], b[3]>> ELSE <<>>

\* A tensor viewed in shape s (s = <<>>: the view is refused).
Viewed(t, s) ==
    IF ~t.ok THEN t
    ELSE IF s = <<>> THEN Fail(t, "error: view")
    ELSE [t EXCEPT !.shape = s, !.v = Append(@, Entry("view", s))]

\* Variant: the softmax taken over the last axis (dim=-1) of the view.
SoftmaxDimLast == 3 - 1

\* The axis torch.softmax normalizes in _AttentionGeneration.forward
\* (0-based, of the (N, out_channels, H*W) view).
SoftmaxDim == 1

\* torch.softmax(t, dim)
Softmax(t, dim) ==
    IF ~t.ok THEN t
    ELSE [t EXCEPT !.v = Append(@, Entry("softmax", <<dim>>))]

\* Variant: the operands of the product exchanged, torch.bmm(b, a).
BmmSwapped(a, b) ==
    IF ~a.ok THEN a
    ELSE IF ~b.ok THEN b
    ELSE IF BmmShape(b.shape, a.shape) = <<>> THEN Fail(b, "error: bmm")
    ELSE Tensor(BmmShape(b.shape, a.shape), b.layout,
                b.v \o a.v \o <<Entry("bmm", <<>>)>>)

\* torch.bmm(a, b)
Bmm(a, b) ==
    IF ~a.ok THEN a
    ELSE IF ~b.ok THEN b
    ELSE IF BmmShape(a.shape, b.shape) = <<>> THEN Fail(b, "error: bmm")
    ELSE Tensor(BmmShape(a.shape, b.shape), a.layout,
                a.v \o b.v \o <<Entry("bmm", <<>>)>>)

-----------------------------------------------------------------------------
(* _AttentionGeneration.forward *)

\* line 114: fm = fm.view(n, self.reduced_channels, h, w)
AG114(name, reduced_channels, size, fm) ==
    IF ~fm.ok THEN fm
    ELSE [Viewed(fm, View4Shape(fm.shape, size[1], reduced_channels, size[3], size[4]))
          EXCEPT !.layout = <<Block(name, reduced_channels)>>]

\* lines 110-113: n, c, h, w = attention.size(); both tensors viewed with
\* their spatial sizes flattened; fm = bmm(reduce_x, softmax(attention, dim=1))
AG110(name, reduced_channels, reduce_x, attention) ==
    IF ~attention.ok THEN attention
    ELSE AG114(name, reduced_channels, attention.shape,
               Bmm(Viewed(reduce_x, View3Shape(reduce_x.shape, attention.shape[1],
                                               reduced_channels)),
                   Softmax(Viewed(attention, View3Shape(attention.shape, attention.shape[1],
                                                        attention.shape[2])),
                           SoftmaxDim)))

\* line 109: attention = self.attention(reduce_x)
AG109(name, reduced_channels, out_channels, reduce_x, training, trk) ==
    AG110(name, reduced_channels, reduce_x,
          Conv2d(name \o ".attention.1", reduced_channels, out_channels, 1, 0,
                 ConvBNReLU(name \o ".attention.0", reduced_channels, reduced_channels,
                            1, 0, reduce_x, training, trk)))

\* _AttentionGeneration(in_channels, reduced_channels, out_channels).forward(x);
\* line 108: reduce_x = self.conv_reduce(x)
AttentionGenerationForward(name, in_channels, reduced_channels, out_channels, x, training, trk) ==
    AG109(name, reduced_channels, out_channels,
          ConvBNReLU(name \o ".conv_reduce", in_channels, reduced_channels, 1, 0,
                     x, training, trk),
          training, trk)

-----------------------------------------------------------------------------
(* _PointwiseSpatialAttention.forward *)

\* line 93: psa_fm = torch.cat([collect_fm, distribute_fm], dim=1)
PSA93(collect_fm, distribute_fm) ==
    [collect_fm |-> collect_fm, distribute_fm |-> distribute_fm,
     psa_fm |-> Cat(collect_fm, distribute_fm)]

\* Variant: one instance applied twice, distribute_fm = self.collect_attention(x).
PointwiseSpatialAttentionShared(in_channels, out_channels, x, training, trk) ==
    PSA93(AttentionGenerationForward("psa.collect_attention", in_channels, ReducedChannels,
                                     out_channels, x, training, trk),
          AttentionGenerationForward("psa.collect_attention", in_channels, ReducedChannels,
                                     out_channels, x, training, trk))

\* _PointwiseSpatialAttention(in_channels, out_channels).forward(x), lines
\* 91-92: the two instances, each with its own layers, on the same x.
\* The locals at return; psa_fm is the result.
PointwiseSpatialAttentionForward(in_channels, out_channels, x, training, trk) ==
    PSA93(AttentionGenerationForward("psa.collect_attention", in_channels, ReducedChannels,
                                     out_channels, x, training, trk),
          AttentionGenerationForward("psa.distribute_attention", in_channels, ReducedChannels,
                                     out_channels, x, training, trk))

-----------------------------------------------------------------------------
(* _PSAHead.forward *)

\* Variant: the fused features first, torch.cat([out, x], dim=1).
HeadConcatSwapped(x, out) == Cat(out, x)

\* torch.cat([x, out], dim=1) of line 77
HeadConcat(x, out) == Cat(x, out)

\* line 78, third layer of self.project: nn.Conv2d(512, nclass, 1)
Head78c(nclass, psa, post, fused, p0, p1) ==
    [psa |-> psa, post |-> post, fused |-> fused, p0 |-> p0, p1 |-> p1,
     out |-> Conv2d("head.project.2", ProjectMid, nclass, 1, 0, p1)]

\* line 78, second layer: nn.Dropout2d(0.1, False)
Head78b(nclass, psa, post, fused, p0, training, g) ==
    Head78c(nclass, psa, post, fused, p0, Dropout2d("head.project.1", p0, training, g))

\* line 78, first layer: _ConvBNReLU(4096, 512, 3, padding=1)
Head78a(nclass, psa, post, fused, training, trk, g) ==
    Head78b(nclass, psa, post, fused,
            ConvBNReLU("head.project.0", ProjectIn, ProjectMid, 3, 1, fused, training, trk),
            training, g)

\* line 77: out = torch.cat([x, out], dim=1)
Head77(nclass, x, psa, post, training, trk, g) ==
    Head78a(nclass, psa, post, HeadConcat(x, post), training, trk, g)

\* line 76: out = self.conv_post(global_feature)
Head76(nclass, x, psa, training, trk, g) ==
    Head77(nclass, x, psa,
           ConvBNReLU("head.conv_post", ConvPostIn, ConvPostOut, 1, 0, psa.psa_fm, training, trk),
           training, trk, g)

\* _PSAHead(nclass).forward(x); line 75: global_feature = self.psa(x).
\* The locals at return; out is the result.  g is the generator state the
\* dropout layer finds.
PSAHeadForward(nclass, x, training, trk, g) ==
    Head76(nclass, x,
           PointwiseSpatialAttentionForward(PsaInChannels, PsaOutChannels, x, training, trk),
           training, trk, g)

-----------------------------------------------------------------------------
(* PSANet.forward *)

\* SegBaseModel.base_forward(x): the dilated backbone's feature maps, c3 and
\* c4 both at 1/Stride of the input's height and width.
BaseFeature(m, x, which, channels, trk) ==
    Tensor(<<x.shape[1], channels, x.shape[3] \div Stride, x.shape[4] \div Stride>>,
           <<Block(which, channels)>>,
           Append(x.v, Entry(m.backbone \o "." \o which,
                             <<IF m.pretrained_base THEN 1 ELSE 0>>
                                 \o StatsUsed(m.training, trk))))

\* _FCNHead(cin, nclass).forward(t): an external head mapping cin channels
\* to nclass score maps of the same spatial size; in training mode its
\* layers draw d masks from the generator (state g).
FCNHeadForward(cin, nclass, t, training, trk, g, d) ==
    IF ~t.ok THEN t
    ELSE IF t.shape[2] # cin THEN Fail(t, "error: channels")
    ELSE Tensor(<<t.shape[1], nclass, t.shape[3], t.shape[4]>>,
                <<Block("auxlayer", nclass)>>,
                Append(t.v, Entry("auxlayer",
                                  StatsUsed(training, trk)
                                      \o (IF training /\ d > 0 THEN <<g>> ELSE <<>>))))

\* How many masks the head's dropout drew on a tape.
DrawsIn(v) == Cardinality({i \in DOMAIN v : v[i].op = "head.project.1" /\ v[i].p # <<>>})

\* What the call record keeps of a local tensor.
Summary(t) == [ok |-> t.ok, shape |-> t.shape, layout |-> t.layout]

\* The layers and operations a tensor's value went through.
Ops(t) == {t.v[i].op : i \in DOMAIN t.v}

\* The operation that raised, "" when none did.
RaisedBy(t) == IF t.ok THEN "" ELSE t.v[Len(t.v)].op

Raised == [kind |-> "raise", items |-> <<>>]

\* Variant: return tuple(outputs) whatever self.aux is.
ForwardReturnTuple(outputs, aux) == [kind |-> "tuple", items |-> outputs]

\* lines 57-59: return tuple(outputs) if self.aux, else outputs[0]
ForwardReturn(outputs, aux) ==
    IF aux THEN [kind |-> "tuple", items |-> outputs]
    ELSE [kind |-> "tensor", items |-> <<outputs[1]>>]

\* The record of a call: its inputs, its locals in summary, what it
\* returned (or that it raised) and the generator state it left.
Net57(m, x, trk, g, c3, c4, hd, outputs, gAfter) ==
    [self |-> m, x |-> x, tracked |-> trk, rng |-> g,
     c3 |-> Summary(c3), c4 |-> Summary(c4),
     collect |-> Summary(hd.psa.collect_fm), collectOps |-> Ops(hd.psa.collect_fm),
     distribute |-> Summary(hd.psa.distribute_fm), distributeOps |-> Ops(hd.psa.distribute_fm),
     psa |-> Summary(hd.psa.psa_fm), post |-> Summary(hd.post),
     fused |-> Summary(hd.fused), p0 |-> Summary(hd.p0), p1 |-> Summary(hd.p1),
     out |-> Summary(hd.out), raisedBy |-> RaisedBy(hd.out),
     ret |-> IF \E i \in DOMAIN outputs : ~outputs[i].ok THEN Raised
             ELSE ForwardReturn(outputs, m.aux),
     rngAfter |-> gAfter]

\* lines 53-56: if self.aux: auxout = self.auxlayer(c3); auxout =
\* F.interpolate(auxout, size, ...); outputs.append(auxout).  Not reached
\* when the head raised.
Net53(m, x, trk, g, d, c3, c4, hd, primary) ==
    IF m.aux /\ primary.ok
    THEN Net57(m, x, trk, g, c3, c4, hd,
               <<primary,
                 Interpolate(FCNHeadForward(AuxInChannels, m.nclass, c3, m.training, trk,
                                            g + DrawsIn(primary.v), d),
                             <<x.shape[3], x.shape[4]>>)>>,
               g + DrawsIn(primary.v) + (IF m.training THEN d ELSE 0))
    ELSE Net57(m, x, trk, g, c3, c4, hd, <<primary>>, g + DrawsIn(primary.v))

\* lines 46, 50-51: size = x.size()[2:]; x = F.interpolate(x, size, ...);
\* outputs.append(x)
Net50(m, x, trk, g, d, c3, c4, hd) ==
    Net53(m, x, trk, g, d, c3, c4, hd, Interpolate(hd.out, <<x.shape[3], x.shape[4]>>))

\* Variant: the auxiliary layer run before the head, which then finds the
\* generator advanced by the auxiliary layer's draws.
GeneratorAfterAux(m, g, d) == g + (IF m.aux /\ m.training THEN d ELSE 0)

\* The generator state the head's dropout finds: the head (line 49) runs
\* before the auxiliary layer (line 54), so it is the state on entry.
GeneratorAtHead(m, g, d) == g

\* line 49: x = self.head(c4)
Net49(m, x, trk, g, d, c3, c4) ==
    Net50(m, x, trk, g, d, c3, c4,
          PSAHeadForward(m.nclass, c4, m.training, trk, GeneratorAtHead(m, g, d)))

\* PSANet.forward(x) of model m, entered with the running statistics at
\* version trk and the generator at state g (d: the masks the auxiliary
\* head draws in training mode); line 47: _, _, c3, c4 = self.base_forward(x)
PSANetForward(m, x, trk, g, d) ==
    Net49(m, x, trk, g, d,
          BaseFeature(m, x, "c3", C3Channels, trk), BaseFeature(m, x, "c4", C4Channels, trk))

NoCall == [ret |-> [kind |-> "none", items |-> <<>>]]

-----------------------------------------------------------------------------
(* Construction *)

Get(kw, key, default) == IF key \in DOMAIN kw THEN kw[key] ELSE default

Merge(f, g) == [k \in DOMAIN f \cup DOMAIN g |-> IF k \in DOMAIN f THEN f[k] ELSE g[k]]

Without(kw, keys) == [k \in DOMAIN kw \ keys |-> kw[k]]

\* Keyword arguments: every assignment of values to a subset of the keys.
KwargsOver(keys, values) == UNION {[D -> values] : D \in SUBSET keys}

\* PSANet.__init__'s default for backbone.
DefaultBackbone == "resnet"

\* PSANet(nclass, **kw): the arguments __init__ binds, defaults filled in.
PSANetArgs(nclass, kw) ==
    [nclass |-> nclass,
     backbone |-> Get(kw, "backbone", DefaultBackbone),
     aux |-> Get(kw, "aux", FALSE),
     pretrained_base |-> Get(kw, "pretrained_base", TRUE)]

\* The object PSANet.__init__ leaves behind (a new module is in training mode).
PSANetInit(a) ==
    [nclass |-> a.nclass, backbone |-> a.backbone, aux |-> a.aux,
     pretrained_base |-> a.pretrained_base, training |-> TRUE,
     exclusive |-> IF a.aux THEN <<"head", "auxlayer">> ELSE <<"head">>]

\* What PSANet.__init__ hands to SegBaseModel.__init__.
SegBaseArgs(a) ==
    [nclass |-> a.nclass, aux |-> a.aux, backbone |-> a.backbone, pretrained |-> a.pretrained_base]

\* get_psanet(num_classes, **kw): the PSANet(...) call it makes.
GetPsanetArgs(num_classes, kw) ==
    PSANetArgs(num_classes,
               Merge([backbone |-> Get(kw, "backbone", "resnet50"),
                      pretrained_base |-> Get(kw, "pretrained", TRUE)],
                     Without(kw, {"backbone", "pretrained"})))

\* get_psanet_<variant>(num_classes, **kw)
GetPsanetVariantArgs(variant, num_classes, kw) ==
    GetPsanetArgs(num_classes, Merge([backbone |-> variant], kw))

NoBaseCall == [nclass |-> 0, aux |-> FALSE, backbone |-> "", pretrained |-> FALSE]

NoAg == [status |-> "none"]

-----------------------------------------------------------------------------
(* The session *)

Init ==
    /\ model = NoModel
    /\ baseCall = NoBaseCall
    /\ tracked = 0
    /\ rng = 0
    /\ call = NoCall
    /\ ag = NoAg

\* PSANet.__init__ with bound arguments a (a session builds one model).
\* SegBaseModel.__init__ receives
\* the selector as given; what it does with a selector outside the enum is
\* not in this file, so such a construction either completes or raises.
Construct(a) ==
    /\ baseCall' = SegBaseArgs(a)
    /\ \E built \in (IF a.backbone \in BackboneEnum THEN {TRUE} ELSE BOOLEAN) :
          IF built
          THEN /\ model' = PSANetInit(a)
               /\ tracked' = 0
               /\ call' = NoCall
          ELSE UNCHANGED <<model, tracked, call>>
    /\ UNCHANGED <<rng, ag>>

\* PSANet(nclass, [backbone=...], [aux=...], [pretrained_base=...])
NewPSANet ==
    \E nclass \in 1..MaxClasses, bk \in KwargsOver({"backbone"}, BackboneEnum),
       kb \in KwargsOver({"aux", "pretrained_base"}, BOOLEAN) :
        /\ model = NoModel
        /\ Construct(PSANetArgs(nclass, Merge(bk, kb)))

\* get_psanet([num_classes], [backbone=...], [pretrained=...], [aux=...])
GetPsanet ==
    \E num_classes \in 1..MaxClasses, bk \in KwargsOver({"backbone"}, BackboneEnum),
       kb \in KwargsOver({"aux", "pretrained"}, BOOLEAN) :
        /\ model = NoModel
        /\ Construct(GetPsanetArgs(num_classes, Merge(bk, kb)))

GetPsanetResnet50 ==
    \E num_classes \in 1..MaxClasses, kb \in KwargsOver({"aux", "pretrained"}, BOOLEAN) :
        /\ model = NoModel
        /\ Construct(GetPsanetVariantArgs("resnet50", num_classes, kb))

GetPsanetResnet101 ==
    \E num_classes \in 1..MaxClasses, kb \in KwargsOver({"aux", "pretrained"}, BOOLEAN) :
        /\ model = NoModel
        /\ Construct(GetPsanetVariantArgs("resnet101", num_classes, kb))

GetPsanetResnet152 ==
    \E num_classes \in 1..MaxClasses, kb \in KwargsOver({"aux", "pretrained"}, BOOLEAN) :
        /\ model = NoModel
        /\ Construct(GetPsanetVariantArgs("resnet152", num_classes, kb))

\* model.train() / model.eval(), inherited from nn.Module
Train ==
    /\ model # NoModel
    /\ ~model.training
    /\ model' = [model EXCEPT !.training = TRUE]
    /\ UNCHANGED <<baseCall, tracked, rng, call, ag>>

Eval ==
    /\ model # NoModel
    /\ model.training
    /\ model' = [model EXCEPT !.training = FALSE]
    /\ UNCHANGED <<baseCall, tracked, rng, call, ag>>

\* An image batch of shape (n, 3, h, w) with content img.
Image(n, h, w, img) ==
    Tensor(<<n, ImageChannels, h, w>>, <<Block("image", ImageChannels)>>,
           <<Entry("image", <<img>>)>>)

\* model(x): normalization layers in training mode update their running
\* statistics as soon as they run (the backbone's do so before the head can
\* fail); dropout masks advance the generator.
Forward ==
    \E n \in BatchSizes, grid \in Grids, img \in 1..MaxImages, d \in {0, 1} :
        /\ model # NoModel
        /\ d = 1 => model.aux /\ model.training
        /\ model.training => tracked < MaxTracked
        /\ LET r == PSANetForward(model, Image(n, grid[1] * Stride, grid[2] * Stride, img), tracked, rng, d)
           IN  /\ call' = r
               /\ rng' = r.rngAfter
        /\ tracked' = IF model.training THEN tracked + 1 ELSE tracked
        /\ UNCHANGED <<model, baseCall, ag>>

Next ==
    \/ NewPSANet
    \/ GetPsanet
    \/ GetPsanetResnet50
    \/ GetPsanetResnet101
    \/ GetPsanetResnet152
    \/ Train
    \/ Eval
    \/ Forward

Spec == Init /\ [][Next]_vars

-----------------------------------------------------------------------------
(* _AttentionGeneration.forward on numbers.  A tensor of rank r is a
   sequence nested r deep; a softmax weight is an exact fraction <<num, den>>
   with exp(v) modelled by 2^v. *)

RECURSIVE SumSeq(_)
SumSeq(s) == IF s = <<>> THEN 0 ELSE Head(s) + SumSeq(Tail(s))

FracAdd(x, y) == <<x[1] * y[2] + y[1] * x[2], x[2] * y[2]>>

RECURSIVE FracSum(_)
FracSum(s) == IF s = <<>> THEN <<0, 1>> ELSE FracAdd(Head(s), FracSum(Tail(s)))

ExpModel(v) == 2 ^ v

\* t.view(n, c, -1) of a rank-4 tensor (row-major)
Flatten3(t, h, w) ==
    [b \in DOMAIN t |-> [k \in DOMAIN t[b] |->
        [j \in 1..(h * w) |-> t[b][k][((j - 1) \div w) + 1][((j - 1) % w) + 1]]]]

\* t.view(n, c, h, w) of a rank-3 tensor (row-major)
Unflatten4(t, h, w) ==
    [b \in DOMAIN t |-> [c \in DOMAIN t[b] |->
        [y \in 1..h |-> [x \in 1..w |-> t[b][c][(y - 1) * w + x]]]]]

\* torch.softmax(a, dim) of a rank-3 tensor: each entry's exponential over
\* the sum of the exponentials along axis dim.
SoftmaxNum(a, dim) ==
    [b \in DOMAIN a |-> [k \in DOMAIN a[b] |-> [j \in DOMAIN a[b][k] |->
        <<ExpModel(a[b][k][j]),
          CASE dim = 0 -> SumSeq([b2 \in DOMAIN a |-> ExpModel(a[b2][k][j])])
            [] dim = 1 -> SumSeq([k2 \in DOMAIN a[b] |-> ExpModel(a[b][k2][j])])
            [] OTHER -> SumSeq([j2 \in DOMAIN a[b][k] |-> ExpModel(a[b][k][j2])])>>]]]

\* torch.bmm(x, y): out[b][c][j] = sum over k of x[b][c][k] * y[b][k][j]
BmmNum(x, y) ==
    [b \in DOMAIN x |-> [c \in DOMAIN x[b] |-> [j \in DOMAIN y[b][1] |->
        FracSum([k \in DOMAIN y[b] |-> <<x[b][c][k] * y[b][k][j][1], y[b][k][j][2]>>])]]]

\* Outputs of the convolution stacks, whose weights are arbitrary: the
\* reduced features (non-negative, after ReLU) and the attention logits.
Features(n, c, h, w, t1, t2) ==
    [b \in 1..n |-> [k \in 1..c |-> [y \in 1..h |-> [x \in 1..w |->
        (b + t1 * k + t2 * y + (t1 + t2) * x) % (MaxFeat + 1)]]]]

Logits(n, c, h, w, s1, s2, s3) ==
    [b \in 1..n |-> [k \in 1..c |-> [y \in 1..h |-> [x \in 1..w |->
        (b + s1 * k + s2 * y + s3 * x) % (MaxLogit + 1)]]]]

\* _AttentionGeneration.__init__
AgInit(in_channels, reduced_channels, out_channels) ==
    [status |-> "built", in_channels |-> in_channels,
     reduced_channels |-> reduced_channels, out_channels |-> out_channels]

\* self.forward(x) for x of shape (n, in_channels, h, w), the convolution
\* stacks giving reduce_x and attention: whether it completes comes from
\* the shapes; when it does, lines 111-114 on the numbers.
AgForwardNum(self, n, h, w, reduce_x, attention) ==
    LET t == AttentionGenerationForward("ag", self.in_channels, self.reduced_channels,
                                        self.out_channels,
                                        Tensor(<<n, self.in_channels, h, w>>,
                                               <<Block("x", self.in_channels)>>,
                                               <<Entry("x", <<>>)>>),
                                        FALSE, 0)
    IN  IF t.ok
        THEN [status |-> "ok", self |-> self, n |-> n, h |-> h, w |-> w,
              shape |-> t.shape, raisedBy |-> "",
              reduce_x |-> Flatten3(reduce_x, h, w),
              weights |-> SoftmaxNum(Flatten3(attention, h, w), SoftmaxDim),
              fm |-> Unflatten4(BmmNum(Flatten3(reduce_x, h, w),
                                       SoftmaxNum(Flatten3(attention, h, w), SoftmaxDim)),
                                h, w)]
        ELSE [status |-> "error", self |-> self, n |-> n, h |-> h, w |-> w,
              shape |-> <<>>, raisedBy |-> RaisedBy(t),
              reduce_x |-> <<>>, weights |-> <<>>, fm |-> <<>>]

AgNew ==
    \E in_channels \in SmallIn, reduced_channels \in SmallReduced, out_channels \in 1..MaxOut :
        /\ ag = NoAg
        /\ ag' = AgInit(in_channels, reduced_channels, out_channels)
        /\ UNCHANGED <<model, baseCall, tracked, rng, call>>

AgForward ==
    \E n \in BatchSizes, h \in 1..MaxSide, w \in 1..MaxSide,
       t1 \in 0..MaxFeat, t2 \in 0..MaxFeat,
       s1 \in 0..MaxLogit, s2 \in 0..MaxLogit, s3 \in 0..MaxLogit :
        /\ ag.status = "built"
        /\ ag' = AgForwardNum(ag, n, h, w,
                              Features(n, ag.reduced_channels, h, w, t1, t2),
                              Logits(n, ag.out_channels, h, w, s1, s2, s3))
        /\ UNCHANGED <<model, baseCall, tracked, rng, call>>

NextAttn == AgNew \/ AgForward

SpecAttn == Init /\ [][NextAttn]_vars

-----------------------------------------------------------------------------
(* Properties *)

Called == call.ret.kind # "none"

Returned == call.ret.kind \in {"tensor", "tuple"}

Primary == call.ret.items[1]

InputShape(n, h, w) == <<n, 3, h, w>>

\* C1: for every input (N,3,H,W) with H and W multiples of the backbone's
\* stride, PSANet.forward completes and its primary output has shape
\* (N, nclass, H, W).
C1_EveryStrideMultipleCompletes ==
    (Called /\ call.self.backbone \in BackboneEnum
        /\ call.x.shape[3] % 8 = 0 /\ call.x.shape[4] % 8 = 0)
    => /\ Returned
       /\ Primary.shape = <<call.x.shape[1], call.self.nclass,
                            call.x.shape[3], call.x.shape[4]>>

\* C2: forward returns the pair (primary, auxiliary) exactly when the
\* auxiliary flag is set and the single primary tensor otherwise; the
\* primary is the head on c4 and comes first, the auxiliary is the
\* auxiliary head on c3 and comes second, both at the input's spatial size.
C2_PairExactlyWhenAux ==
    Returned =>
        /\ call.ret.kind = "tuple" <=> call.self.aux
        /\ Len(call.ret.items) = (IF call.self.aux THEN 2 ELSE 1)
        /\ \A i \in DOMAIN call.ret.items :
              /\ call.ret.items[i].ok
              /\ call.ret.items[i].shape = <<call.x.shape[1], call.self.nclass,
                                             call.x.shape[3], call.x.shape[4]>>
        /\ Primary.layout = <<Block("head.project.2", call.self.nclass)>>
        /\ (call.self.backbone \o ".c4") \in Ops(Primary)
        /\ (call.self.backbone \o ".c3") \notin Ops(Primary)
        /\ call.self.aux =>
              /\ call.ret.items[2].layout = <<Block("auxlayer", call.self.nclass)>>
              /\ (call.self.backbone \o ".c3") \in Ops(call.ret.items[2])
              /\ (call.self.backbone \o ".c4") \notin Ops(call.ret.items[2])

C2_Witness == call.ret.kind = "tuple" /\ Len(call.ret.items) = 2

\* The same model with the auxiliary flag the other way.
AuxToggled(m) ==
    [m EXCEPT !.aux = ~m.aux,
              !.exclusive = IF m.aux THEN <<"head">> ELSE <<"head", "auxlayer">>]

\* C3: the auxiliary flag does not alter the primary output: on the same
\* input, with the same weights, running statistics, mode and generator
\* state, the model with the flag the other way returns the same primary
\* tensor (whatever its auxiliary head draws from the generator).
C3_AuxLeavesPrimary ==
    Returned =>
        \A d \in {0, 1} :
            LET other == PSANetForward(AuxToggled(call.self), call.x, call.tracked,
                                       call.rng, d)
            IN  /\ other.ret.kind \in {"tensor", "tuple"}
                /\ other.ret.kind # call.ret.kind
                /\ other.ret.items[1] = Primary

C3_Witness ==
    /\ call.ret.kind = "tuple"
    /\ call.self.training
    /\ call.rngAfter = call.rng + 2

\* C5 as claimed: two completed passes of the same model with identical input
\* give identical output, and a pass changes no state a later pass reads,
\* in whichever mode.
C5_EveryPassPure ==
    [][(Returned /\ Returned' /\ model' = model /\ model.backbone \in BackboneEnum
            /\ call'.self = call.self /\ call'.x = call.x)
       => (call'.ret = call.ret /\ tracked' = tracked /\ rng' = rng)]_vars

\* C5, amended: in inference mode a pass changes neither the running
\* statistics nor the generator, and two inference passes on the same input
\* with no training pass in between return the same output.
C5_InferencePassPure ==
    [][(model # NoModel /\ ~model.training /\ model' = model)
       => /\ tracked' = tracked
          /\ rng' = rng
          /\ (Called /\ Called' /\ ~call.self.training /\ call'.x = call.x)
                => call'.ret = call.ret]_vars

C5_Witness ==
    /\ Returned
    /\ ~call.self.training
    /\ call.tracked > 0
    /\ call.rng > 0

\* C6: in _PSAHead.forward every layer receives the channel count it was
\* declared with: 2048 -> attention 1024 -> fusion 2048 -> concatenation
\* (input first, fused second) 4096 -> projection 512 -> dropout 512 ->
\* nclass, the spatial size unchanged throughout.
C6_HeadChannels ==
    Called =>
        /\ call.raisedBy \in {"", "error: bmm"}
        /\ call.out.ok =>
              LET n == call.c4.shape[1]
                  h == call.c4.shape[3]
                  w == call.c4.shape[4]
              IN  /\ call.c4.shape = <<n, 2048, h, w>>
                  /\ call.psa.shape = <<n, 1024, h, w>>
                  /\ call.post.shape = <<n, 2048, h, w>>
                  /\ call.fused.shape = <<n, 4096, h, w>>
                  /\ call.fused.layout = <<Block("c4", 2048), Block("head.conv_post", 2048)>>
                  /\ call.p0.shape = <<n, 512, h, w>>
                  /\ call.p1.shape = <<n, 512, h, w>>
                  /\ call.out.shape = <<n, call.self.nclass, h, w>>

C6_Witness == Called /\ call.out.ok /\ call.c4.shape[3] # call.c4.shape[4]

CollectLayers ==
    {"psa.collect_attention.conv_reduce", "psa.collect_attention.attention.0",
     "psa.collect_attention.attention.1"}

DistributeLayers ==
    {"psa.distribute_attention.conv_reduce", "psa.distribute_attention.attention.0",
     "psa.distribute_attention.attention.1"}

\* C7: _PointwiseSpatialAttention.forward runs two instances with separate
\* layers on the same input and concatenates collect then distribute into
\* (N, 1024, H, W); neither result goes through the other's layers.
C7_TwoIndependentInstances ==
    (Called /\ call.psa.ok) =>
        LET n == call.c4.shape[1]
            h == call.c4.shape[3]
            w == call.c4.shape[4]
        IN  /\ call.collect.shape = <<n, 512, h, w>>
            /\ call.distribute.shape = <<n, 512, h, w>>
            /\ call.psa.shape = <<n, 1024, h, w>>
            /\ call.psa.layout = <<Block("psa.collect_attention", 512),
                                   Block("psa.distribute_attention", 512)>>
            /\ CollectLayers \subseteq call.collectOps
            /\ DistributeLayers \subseteq call.distributeOps
            /\ call.collectOps \cap DistributeLayers = {}
            /\ call.distributeOps \cap CollectLayers = {}
            /\ call.collectOps \ CollectLayers = call.distributeOps \ DistributeLayers

C7_Witness == Called /\ call.psa.ok /\ call.self.training

\* C8: an input of shape (1,3,480,480) to a resnet50 model completes and
\* the primary output has shape (1, nclass, 480, 480).
C8_Demo480 ==
    (Called /\ call.self.backbone = "resnet50" /\ call.x.shape = InputShape(1, 480, 480))
    => /\ Returned
       /\ call.c4.shape = <<1, 2048, 60, 60>>
       /\ Primary.shape = <<1, call.self.nclass, 480, 480>>

C8_Witness ==
    /\ Returned
    /\ call.self.backbone = "resnet50"
    /\ call.x.shape = InputShape(1, 480, 480)
    /\ call.self.nclass = 2

\* C9: every constructor passes a member of {resnet50, resnet101,
\* resnet152} to the base model, PSANet built with no explicit backbone
\* included.
C9_BackboneInEnum ==
    baseCall # NoBaseCall => baseCall.backbone \in BackboneEnum

-----------------------------------------------------------------------------
(* Properties of the numeric _AttentionGeneration.forward *)

\* The weights aggregated into output position j of batch b: the second
\* operand of the matrix product along the contracted axis.
WeightVector(b, j) == [k \in DOMAIN ag.weights[b] |-> ag.weights[b][k][j]]

IsOne(f) == f[1] = f[2] /\ f[2] > 0

Between(lo, f, hi) == f[2] > 0 /\ lo * f[2] <= f[1] /\ f[1] <= hi * f[2]

\* C4: for every output position the attention weights aggregated into it
\* sum to 1, so the output there is a normalized weighted combination of
\* the reduced features (it lies between their least and greatest).
C4_WeightsSumToOne ==
    ag.status = "ok" =>
        \A b \in 1..ag.n, j \in 1..(ag.h * ag.w) :
            /\ IsOne(FracSum(WeightVector(b, j)))
            /\ \A c \in 1..ag.self.reduced_channels :
                  LET feats == {ag.reduce_x[b][c][k] : k \in DOMAIN ag.reduce_x[b][c]}
                      lo == CHOOSE v \in feats : \A u \in feats : v <= u
                      hi == CHOOSE v \in feats : \A u \in feats : v >= u
                  IN  Between(lo, ag.fm[b][c][((j - 1) \div ag.w) + 1][((j - 1) % ag.w) + 1], hi)

C4_Witness ==
    /\ ag.status = "ok"
    /\ ag.h * ag.w > 1
    /\ \E b \in 1..ag.n, k \in 1..(ag.h * ag.w), j \in 1..(ag.h * ag.w) :
          ag.weights[b][k][j][1] # ag.weights[b][1][1][1]

\* C10: _AttentionGeneration.forward completes exactly when H*W equals the
\* configured out_channels; then the result has shape (N, reduced_channels,
\* H, W); otherwise the matrix product raises a shape mismatch and there is
\* no output.
C10_CompletesIffGridMatches ==
    ag.status \in {"ok", "error"} =>
        /\ ag.status = "ok" <=> ag.h * ag.w = ag.self.out_channels
        /\ ag.status = "ok" =>
              /\ ag.shape = <<ag.n, ag.self.reduced_channels, ag.h, ag.w>>
              /\ Len(ag.fm) = ag.n
              /\ \A b \in 1..ag.n :
                    /\ Len(ag.fm[b]) = ag.self.reduced_channels
                    /\ \A c \in 1..ag.self.reduced_channels :
                          /\ Len(ag.fm[b][c]) = ag.h
                          /\ \A y \in 1..ag.h : Len(ag.fm[b][c][y]) = ag.w
        /\ ag.status = "error" => ag.raisedBy = "error: bmm" /\ ag.fm = <<>>

C10_Witness ==
    /\ ag.status = "error"
    /\ ag.raisedBy = "error: bmm"
    /\ ag.h * ag.w < ag.self.out_channels

====
